---- MODULE Spec2Model ----
(***************************************************************************)
(* Model of vtid / vtid-proc: the persistent build counter kept in the     *)
(* lock file (proc/src/lib.rs), the lazily initialised BASE_ID of one      *)
(* proc-macro process, the derive expansion that bakes BASE_ID into the    *)
(* generated accessor, and the Vtid value of the runtime crate             *)
(* (src/lib.rs).                                                           *)
(*                                                                         *)
(* A file is a sequence of one-character strings.  u64 is scaled down to   *)
(* U64Bits bits so that the overflow of `counter + 1` and of the decimal   *)
(* parser happen inside TLC's integer range; every operator is written     *)
(* against U64Max and does not depend on the chosen width.                 *)
(***************************************************************************)
EXTENDS Integers, Sequences, FiniteSets

\* ---------------------------------------------------------------- bounds
U64Bits == 7
NProcs == 2
NThreads == 2
NTypes == 2
MaxLen == 3
ClockSpan == 1
MaxCalls == 10
MaxCrashes == 1

RECURSIVE Pow2(_)
Pow2(n) == IF n = 0 THEN 1 ELSE 2 * Pow2(n - 1)

U64Max == Pow2(U64Bits) - 1

Procs == 1..NProcs
Threads == 1..NThreads
Types == 1..NTypes

\* Seconds since the epoch that SystemTime::now() may report.  They are far
\* below U64Max, as 1.7e9 is far below 2^64, and two digits long.
ClockBase == 20
Clock == ClockBase..(ClockBase + ClockSpan)

\* ----------------------------------------------------------- file bytes
Digits == <<"0", "1", "2", "3", "4", "5", "6", "7", "8", "9">>
DigitSet == {Digits[i] : i \in 1..10}
DigitVal(c) == CHOOSE d \in 0..9 : Digits[d + 1] = c

\* A byte that is not valid UTF-8 (0xFF), a whitespace byte, a letter.
BadByte == "?"
Space == " "
Letter == "x"
Plus == "+"

\* char::is_whitespace, as used by str::trim
IsWhitespace(c) == c = Space

\* u64::to_string: canonical decimal text, no sign, no leading zeros
RECURSIVE ToString(_)
ToString(n) ==
  IF n < 10 THEN <<Digits[n + 1]>>
  ELSE ToString(n \div 10) \o <<Digits[(n % 10) + 1]>>

\* str::trim: drop leading and trailing whitespace
RECURSIVE TrimStart(_)
TrimStart(s) ==
  IF s # <<>> /\ IsWhitespace(Head(s)) THEN TrimStart(Tail(s)) ELSE s

RECURSIVE TrimEnd(_)
TrimEnd(s) ==
  IF s # <<>> /\ IsWhitespace(s[Len(s)])
  THEN TrimEnd(SubSeq(s, 1, Len(s) - 1)) ELSE s

Trim(s) == TrimEnd(TrimStart(s))

\* The digit loop of <u64 as FromStr>::from_str: checked_mul(10) then
\* checked_add(digit); an Option<u64> is a set with at most one element.
RECURSIVE ParseDigits(_, _)
ParseDigits(s, acc) ==
  IF s = <<>> THEN {acc}
  ELSE IF Head(s) \notin DigitSet THEN {}
  ELSE IF acc * 10 + DigitVal(Head(s)) > U64Max THEN {}
  ELSE ParseDigits(Tail(s), acc * 10 + DigitVal(Head(s)))

\* str::parse::<u64>: empty is an error, a lone sign is an error, one
\* leading '+' is accepted, anything else must be decimal digits in range.
ParseU64(s) ==
  IF s = <<>> THEN {}
  ELSE IF Head(s) = Plus
       THEN (IF Len(s) = 1 THEN {} ELSE ParseDigits(Tail(s), 0))
       ELSE ParseDigits(s, 0)

\* String::from_utf8 as performed by read_to_string
IsUtf8(s) == \A i \in 1..Len(s) : s[i] # BadByte

\* seek(SeekFrom::Start(0)) followed by a write of `bytes`: the bytes
\* replace the head of the file, the file is never shortened.
Overwrite(old, bytes) ==
  IF Len(bytes) >= Len(old) THEN bytes
  ELSE bytes \o SubSeq(old, Len(bytes) + 1, Len(old))

Prefixes(bytes) == {SubSeq(bytes, 1, k) : k \in 0..Len(bytes)}

\* counter + 1 on u64 when overflow checks are off
WrappingInc(n) == (n + 1) % (U64Max + 1)

\* ------------------------------------------------------------ Vtid value
\* core::any::TypeId::of::<T>(): an opaque token, distinct for distinct types
TypeIdOf(ty) == (5 * ty + 3) % 16

\* The token of one fixed type instead of the token of T
private_vtid_Fixed(ty, base_id) == [tid |-> TypeIdOf(0), base_id |-> base_id]

\* vtid::private::vtid::<T>(base_id)
private_vtid(ty, base_id) == [tid |-> TypeIdOf(ty), base_id |-> base_id]

\* #[derive(PartialEq, Eq)] on Vtid: field by field
VtidEq(a, b) == a.tid = b.tid /\ a.base_id = b.base_id

\* Ord::cmp on u64 and on TypeId (an integer token): an Ordering
IntCmp(x, y) == IF x < y THEN "Less" ELSE IF x = y THEN "Equal" ELSE "Greater"

\* A comparison that looks at the base value only
VtidCmp_BaseOnly(a, b) == IntCmp(a.base_id, b.base_id)

\* #[derive(PartialOrd, Ord)] on Vtid: lexicographic in declaration order,
\* tid first, base_id second
VtidCmp(a, b) ==
  IF IntCmp(a.tid, b.tid) # "Equal" THEN IntCmp(a.tid, b.tid)
  ELSE IntCmp(a.base_id, b.base_id)

\* ----------------------------------------------------------------- state
VARIABLES
  dirExists,      \* the parent directory of the lock file exists
  fileExists,     \* the lock file exists
  content,        \* bytes of the lock file
  lockHolders,    \* processes whose open file holds the exclusive flock
  overflowChecks, \* the profile the proc-macro crate was compiled with
  jobs,           \* how many build processes the build tool runs at a time
  once,           \* per process: state of the Once behind BASE_ID
  BASE_ID,        \* per process: the lazily computed value, {} until set
  pc,             \* per process: position inside get_next_counter
  counter,        \* per process: local `counter` of read_and_update_counter
  new_counter,    \* per process: local `new_counter`
  derive,         \* per process and type: progress of derive_answer_fn
  impls,          \* per process and type: base id baked into the emitted impl
  exited,         \* per process: the build process has ended
  seen,           \* the last two identifiers retrieved at run time
  content0,       \* history: bytes of the file at the start
  existed0,       \* history: whether the file existed at the start
  dir0,           \* history: whether the directory existed at the start
  calls,          \* history: per process, entries into get_next_counter
  readText,       \* history: per process, text returned by read_to_string
  seeded,         \* history: per process, counter came from the clock
  failed,         \* history: processes whose initializer panicked
  log             \* history: calls that held the lock, in lock order

fsVars == <<dirExists, fileExists, content, lockHolders>>
procVars == <<once, BASE_ID, pc, counter, new_counter, derive, impls, exited>>
histVars == <<content0, existed0, dir0, calls, readText, seeded, failed, log>>
vars == <<dirExists, fileExists, content, lockHolders, overflowChecks, jobs,
          once, BASE_ID, pc, counter, new_counter, derive, impls,
          exited, seen, content0, existed0, dir0, calls, readText,
          seeded, failed, log>>

\* Every text of at most MaxLen bytes over a small alphabet, the canonical
\* text of every u64, and that text with whitespace before or after it.
Alphabet == {"0", "9", Space, Plus, Letter, BadByte}
Texts == UNION {[1..n -> Alphabet] : n \in 0..MaxLen}
           \cup {ToString(n) : n \in 0..U64Max}
           \cup {<<Space>> \o ToString(n) : n \in 0..U64Max}
           \cup {ToString(n) \o <<Space>> : n \in 0..U64Max}

\* The texts the concurrent specification starts from.
FewTexts == {<<Letter, Letter, Letter>>, <<Space, "9", Space>>, <<BadByte>>,
             ToString(8), ToString(U64Max - 1)}

\* The texts the run-time specification starts from.
RunTexts == {<<Letter>>, <<BadByte>>, ToString(9), ToString(U64Max)}

\* The texts the crash specification starts from.
CrashTexts == {ToString(1)}

InitProcs ==
  /\ lockHolders = {}
  /\ overflowChecks \in BOOLEAN
  /\ once = [p \in Procs |-> "incomplete"]
  /\ BASE_ID = [p \in Procs |-> {}]
  /\ pc = [p \in Procs |-> "start"]
  /\ counter = [p \in Procs |-> 0]
  /\ new_counter = [p \in Procs |-> 0]
  /\ derive = [p \in Procs |-> [ty \in Types |-> "none"]]
  /\ impls = [p \in Procs |-> [ty \in Types |-> {}]]
  /\ exited = [p \in Procs |-> FALSE]
  /\ seen = <<>>
  /\ calls = [p \in Procs |-> 0]
  /\ readText = [p \in Procs |-> <<>>]
  /\ seeded = [p \in Procs |-> FALSE]
  /\ failed = {}
  /\ log = <<>>

InitFS(texts) ==
  /\ \/ /\ fileExists = TRUE
        /\ dirExists = TRUE
        /\ content \in texts
     \/ /\ fileExists = FALSE
        /\ dirExists \in BOOLEAN
        /\ content = <<>>
  /\ content0 = content
  /\ existed0 = fileExists
  /\ dir0 = dirExists

Init == InitFS(FewTexts) /\ InitProcs /\ jobs = NProcs

InitSeq == InitFS(Texts) /\ InitProcs /\ jobs = 1

InitRun == InitFS(RunTexts) /\ InitProcs /\ jobs = 1

InitCrash == InitFS(CrashTexts) /\ InitProcs /\ jobs = 1

\* The texts the fair specification starts from.
LiveTexts == {<<Letter>>, <<BadByte>>, ToString(9), ToString(U64Max)}

InitLive == InitFS(LiveTexts) /\ InitProcs /\ jobs = NProcs

\* ------------------------------------------------- lazy_static! BASE_ID
\* The type whose derive runs the initializer of BASE_ID in process p
InitType(p) == CHOOSE ty \in Types : derive[p][ty] = "init"

\* Derives of process p that are inside derive_answer_fn, one per thread
Running(p) == {ty \in Types : derive[p][ty] \in {"init", "blocked"}}

\* Derives of process p that panicked
Errors(p) == {ty \in Types : derive[p][ty] = "error"}

\* The build tool starts the processes in order, at most `jobs` at a time.
Scheduled(p) == \A q \in Procs : q < p => exited[q] \/ jobs > 1

\* Types are numbered in source order and expanded in that order.
CanDerive(p, ty) ==
  /\ ~exited[p]
  /\ Scheduled(p)
  /\ derive[p][ty] = "none"
  /\ \A earlier \in Types : earlier < ty => derive[p][earlier] # "none"
  /\ Cardinality(Running(p)) < NThreads

\* An unsynchronised check: a caller that finds the value unset initializes
MayInitialize_Racy(p) == once[p] \in {"incomplete", "running"}

\* Once::call_once runs the closure only for the caller that finds the
\* Once incomplete.
MayInitialize(p) == once[p] = "incomplete"

\* A cell that forgets a panicked initializer and lets the next caller retry
OnceAfterPanic_Retry == "incomplete"

\* State of the Once after its closure panicked.
OnceAfterPanic == "poisoned"

\* The tokens quoted at lib.rs:114-120 carry the value of *BASE_ID.
Emit(p, ty, base_id) == [impls EXCEPT ![p][ty] = {base_id}]

\* derive_answer_fn line 112, first access in the process: this thread
\* runs the initializer, enters get_next_counter and opens the lock file
\* (lines 70-82: create_dir_all, result ignored, then open
\* read+write+create); it then waits for the lock.
DeriveFirst(p, ty) ==
  /\ CanDerive(p, ty)
  /\ MayInitialize(p)
  /\ once' = [once EXCEPT ![p] = "running"]
  /\ derive' = [derive EXCEPT ![p][ty] = "init"]
  /\ calls' = [calls EXCEPT ![p] = @ + 1]
  /\ dirExists' = TRUE
  /\ fileExists' = TRUE
  /\ content' = IF fileExists THEN content ELSE <<>>
  /\ pc' = [pc EXCEPT ![p] = "opened"]
  /\ UNCHANGED <<lockHolders, overflowChecks, jobs, BASE_ID, counter,
                 new_counter, impls, exited, seen, content0, existed0,
                 dir0, readText, seeded, failed, log>>

\* line 112 while another thread runs the initializer: block in call_once
DeriveWait(p, ty) ==
  /\ CanDerive(p, ty)
  /\ ~MayInitialize(p)
  /\ once[p] = "running"
  /\ derive' = [derive EXCEPT ![p][ty] = "blocked"]
  /\ UNCHANGED <<fsVars, overflowChecks, jobs, once, BASE_ID, pc, counter,
                 new_counter, impls, exited, seen, histVars>>

\* A static that takes the next value at every access
Deref_Recount(p) == {WrappingInc(b) : b \in BASE_ID[p]}

\* `*BASE_ID` once the Once is complete: the stored value, nothing is run
Deref(p) == BASE_ID[p]

\* line 112 once BASE_ID is set: read the cached value, emit the impl
DeriveCached(p, ty) ==
  /\ CanDerive(p, ty)
  /\ once[p] = "complete"
  /\ \E b \in Deref(p) : impls' = Emit(p, ty, b)
  /\ derive' = [derive EXCEPT ![p][ty] = "emitted"]
  /\ UNCHANGED <<fsVars, overflowChecks, jobs, once, BASE_ID, pc, counter,
                 new_counter, exited, seen, histVars>>

\* line 112 after the initializer panicked: call_once panics again
DerivePoisoned(p, ty) ==
  /\ CanDerive(p, ty)
  /\ once[p] = "poisoned"
  /\ derive' = [derive EXCEPT ![p][ty] = "error"]
  /\ UNCHANGED <<fsVars, overflowChecks, jobs, once, BASE_ID, pc, counter,
                 new_counter, impls, exited, seen, histVars>>

\* a thread blocked in call_once resumes when the initializer is over
Wake(p, ty) ==
  /\ derive[p][ty] = "blocked"
  /\ once[p] # "running"
  /\ IF once[p] = "complete"
     THEN /\ \E b \in Deref(p) : impls' = Emit(p, ty, b)
          /\ derive' = [derive EXCEPT ![p][ty] = "emitted"]
     ELSE /\ derive' = [derive EXCEPT ![p][ty] = "error"]
          /\ UNCHANGED impls
  /\ UNCHANGED <<fsVars, overflowChecks, jobs, once, BASE_ID, pc, counter,
                 new_counter, exited, seen, histVars>>

\* ------------------------------------------------------ get_next_counter
InCall(p, at) == once[p] = "running" /\ pc[p] = at

\* A guard whose drop leaves the file locked
Unlocked_Leaked(p) == lockHolders

\* LockGuard::drop (lines 39-43): unlock; the holders that remain
Unlocked(p) == lockHolders \ {p}

\* A panic inside the initializer: the stack unwinds, `_guard` (if any) is
\* dropped and unlocks, `file` is closed, the Once is poisoned and the
\* derive that ran the initializer fails.
Unwind(p, ty) ==
  /\ once' = [once EXCEPT ![p] = OnceAfterPanic]
  /\ lockHolders' = Unlocked(p)
  /\ derive' = [derive EXCEPT ![p][ty] = "error"]
  /\ pc' = [pc EXCEPT ![p] = "start"]
  /\ counter' = [counter EXCEPT ![p] = 0]
  /\ new_counter' = [new_counter EXCEPT ![p] = 0]
  /\ failed' = failed \cup {p}
  /\ UNCHANGED <<overflowChecks, jobs, BASE_ID, impls, exited, seen,
                 content0, existed0, dir0>>

\* A panic after the lock was taken is also recorded in the log.
UnwindLocked(p) ==
  /\ Unwind(p, InitType(p))
  /\ log' = Append(log, [proc |-> p, read |-> readText[p], val |-> {},
                         seeded |-> FALSE, wrote |-> content'])
  /\ readText' = [readText EXCEPT ![p] = <<>>]
  /\ seeded' = [seeded EXCEPT ![p] = FALSE]
  /\ UNCHANGED calls

\* lines 112, 89, 72-82 when open fails (create_dir_all may or may not
\* have made the directory): expect() panics before any lock is taken
OpenFail(p, ty) ==
  /\ CanDerive(p, ty)
  /\ MayInitialize(p)
  /\ calls' = [calls EXCEPT ![p] = @ + 1]
  /\ dirExists' \in {dirExists, TRUE}
  /\ Unwind(p, ty)
  /\ UNCHANGED <<fileExists, content, readText, seeded, log>>

\* A lock that never makes a caller wait
LockFree_Ignored == TRUE

\* The flock on the file is free.
LockFree == lockHolders = {}

\* line 84: lock_exclusive returns an error; expect() panics
LockFail(p) ==
  /\ InCall(p, "opened")
  /\ Unwind(p, InitType(p))
  /\ UNCHANGED <<dirExists, fileExists, content, calls, readText, seeded,
                 log>>

\* A fallback of zero, as `unwrap_or_default()` would give
get_unix_timestamp_Zero == {0}

\* lines 45-50: the seconds since the epoch the clock may report
get_unix_timestamp == Clock

\* lines 56-59: the value parsed from the trimmed text
Parsed(text) == ParseU64(Trim(text))

\* line 84 and lines 53-60: lock_exclusive returns once the lock is free,
\* then the text is read and parsed, with the clock as the fallback
ReadCounter(p) ==
  /\ InCall(p, "opened")
  /\ LockFree
  /\ lockHolders' = lockHolders \cup {p}
  /\ IsUtf8(content)
  /\ \E c \in (IF Parsed(content) # {} THEN Parsed(content)
               ELSE get_unix_timestamp) :
       /\ c < U64Max \/ ~overflowChecks
       /\ counter' = [counter EXCEPT ![p] = c]
       /\ new_counter' = [new_counter EXCEPT ![p] = WrappingInc(c)]
  /\ seeded' = [seeded EXCEPT ![p] = (Parsed(content) = {})]
  /\ readText' = [readText EXCEPT ![p] = content]
  /\ pc' = [pc EXCEPT ![p] = "computed"]
  /\ UNCHANGED <<dirExists, fileExists, content, overflowChecks, jobs,
                 once, BASE_ID, derive, impls, exited, seen, content0,
                 existed0, dir0, calls, failed, log>>

\* lines 84, 54: the lock is taken, read_to_string fails with an I/O error
ReadFail(p) ==
  /\ InCall(p, "opened")
  /\ LockFree
  /\ UNCHANGED <<dirExists, fileExists, content>>
  /\ UnwindLocked(p)

\* lines 84, 54: the lock is taken, read_to_string fails with InvalidData
\* because the bytes are not UTF-8
ReadInvalid(p) ==
  /\ InCall(p, "opened")
  /\ LockFree
  /\ ~IsUtf8(content)
  /\ UNCHANGED <<dirExists, fileExists, content>>
  /\ UnwindLocked(p)

\* lines 84, 45-50: the text does not parse and the clock is before the
\* epoch; unwrap() panics
ClockPanic(p) ==
  /\ InCall(p, "opened")
  /\ LockFree
  /\ IsUtf8(content)
  /\ Parsed(content) = {}
  /\ UNCHANGED <<dirExists, fileExists, content>>
  /\ UnwindLocked(p)

\* lines 84, 60 with overflow checks: `counter + 1` panics at u64::MAX
OverflowPanic(p) ==
  /\ InCall(p, "opened")
  /\ LockFree
  /\ IsUtf8(content)
  /\ Parsed(content) = {U64Max}
  /\ overflowChecks
  /\ UNCHANGED <<dirExists, fileExists, content>>
  /\ UnwindLocked(p)

\* lines 62-64 failing: seek fails (nothing written), write_all fails after
\* some of the bytes, or sync_all fails after all of them
WriteFail(p) ==
  /\ InCall(p, "computed")
  /\ \E part \in Prefixes(ToString(new_counter[p])) :
       content' = Overwrite(content, part)
  /\ UNCHANGED <<dirExists, fileExists>>
  /\ UnwindLocked(p)

\* lines 62-66, 85-86, 89, 112-122: seek to 0, write the decimal text,
\* sync; Ok(new_counter) is returned, the guard is dropped, BASE_ID is set
\* and the initializing thread emits its impl
Return(p) ==
  /\ InCall(p, "computed")
  /\ content' = Overwrite(content, ToString(new_counter[p]))
  /\ lockHolders' = Unlocked(p)
  /\ BASE_ID' = [BASE_ID EXCEPT ![p] = {new_counter[p]}]
  /\ once' = [once EXCEPT ![p] = "complete"]
  /\ impls' = Emit(p, InitType(p), new_counter[p])
  /\ derive' = [derive EXCEPT ![p][InitType(p)] = "emitted"]
  /\ pc' = [pc EXCEPT ![p] = "start"]
  /\ counter' = [counter EXCEPT ![p] = 0]
  /\ new_counter' = [new_counter EXCEPT ![p] = 0]
  /\ log' = Append(log, [proc |-> p, read |-> readText[p],
                         val |-> {new_counter[p]}, seeded |-> seeded[p],
                         wrote |-> content'])
  /\ readText' = [readText EXCEPT ![p] = <<>>]
  /\ seeded' = [seeded EXCEPT ![p] = FALSE]
  /\ UNCHANGED <<dirExists, fileExists, overflowChecks, jobs, exited,
                 seen, content0, existed0, dir0, calls, failed>>

\* the compiler process ends when it has expanded every derive of its
\* crate; a crate without derives never calls derive_answer_fn
Exit(p) ==
  /\ ~exited[p]
  /\ Scheduled(p)
  /\ Running(p) = {}
  /\ \/ \A ty \in Types : derive[p][ty] = "none"
     \/ \A ty \in Types : derive[p][ty] # "none"
  /\ exited' = [exited EXCEPT ![p] = TRUE]
  /\ UNCHANGED <<fsVars, overflowChecks, jobs, once, BASE_ID, pc, counter,
                 new_counter, derive, impls, seen, histVars>>

\* Calls that held the lock and did not return
Lost == {i \in 1..Len(log) : log[i].val = {}}

\* A kernel that keeps the flock of a dead process
Closed_StillLocked(p) == lockHolders

\* The kernel closes the files of a process that has ended; closing the
\* open file drops its flock.
Closed(p) == lockHolders \ {p}

\* The build process is killed while it holds the lock (lines 60-64):
\* before the write, after some of the bytes of write_all, or after all of
\* them.  Nothing unwinds; the kernel closes the file, which drops the
\* flock (LockGuard::drop does not run).
Crash(p) ==
  /\ InCall(p, "computed")
  /\ Cardinality(Lost) < MaxCrashes
  /\ \E part \in Prefixes(ToString(new_counter[p])) :
       content' = Overwrite(content, part)
  /\ lockHolders' = Closed(p)
  /\ exited' = [exited EXCEPT ![p] = TRUE]
  /\ derive' = [derive EXCEPT ![p][InitType(p)] = "error"]
  /\ pc' = [pc EXCEPT ![p] = "start"]
  /\ counter' = [counter EXCEPT ![p] = 0]
  /\ new_counter' = [new_counter EXCEPT ![p] = 0]
  /\ log' = Append(log, [proc |-> p, read |-> readText[p], val |-> {},
                         seeded |-> FALSE, wrote |-> content'])
  /\ readText' = [readText EXCEPT ![p] = <<>>]
  /\ seeded' = [seeded EXCEPT ![p] = FALSE]
  /\ UNCHANGED <<dirExists, fileExists, overflowChecks, jobs, once, BASE_ID,
                 impls, seen, content0, existed0, dir0, calls, failed>>

\* The build is run again once all its processes have ended: new compiler
\* processes, with fresh statics, take the place of the old ones.  The
\* lock file stays as it is.
Rebuild ==
  /\ \A p \in Procs : exited[p]
  /\ Len(log) < MaxCalls
  /\ once' = [p \in Procs |-> "incomplete"]
  /\ BASE_ID' = [p \in Procs |-> {}]
  /\ pc' = [p \in Procs |-> "start"]
  /\ counter' = [p \in Procs |-> 0]
  /\ new_counter' = [p \in Procs |-> 0]
  /\ derive' = [p \in Procs |-> [ty \in Types |-> "none"]]
  /\ impls' = [p \in Procs |-> [ty \in Types |-> {}]]
  /\ exited' = [p \in Procs |-> FALSE]
  /\ calls' = [p \in Procs |-> 0]
  /\ failed' = {}
  /\ UNCHANGED <<fsVars, overflowChecks, jobs, seen, content0, existed0,
                 dir0, readText, seeded, log>>

\* ---------------------------------------------------------------- run time
\* The artifact of build p exists when the build ended without an error.
Built(p) == exited[p] /\ Errors(p) = {}

\* An accessor that asks the lock file for the current counter value
Baked_FromFile(p, ty) ==
  IF Parsed(content) # {} THEN CHOOSE b \in Parsed(content) : TRUE ELSE 0

\* The base id the generated accessor of type ty passes on (lib.rs:117)
Baked(p, ty) == CHOOSE b \in impls[p][ty] : TRUE

\* <T as HasVtid>::vtid() as generated at lib.rs:114-120
vtid(p, ty) == private_vtid(ty, Baked(p, ty))

\* Vtid::of::<T>() in some run of the program built by p
VtidOf(p, ty) ==
  /\ Built(p)
  /\ impls[p][ty] # {}
  /\ seen' = (IF seen = <<>> THEN <<>> ELSE <<seen[Len(seen)]>>)
               \o <<[build |-> p, ty |-> ty, v |-> vtid(p, ty)]>>
  /\ UNCHANGED <<fsVars, overflowChecks, jobs, procVars, histVars>>

\* ------------------------------------------------------- specifications
\* One step of build process p, whose derives are expanded by one thread
Build(p) ==
  \/ \E ty \in Types : DeriveFirst(p, ty)
  \/ \E ty \in Types : DeriveCached(p, ty)
  \/ \E ty \in Types : DerivePoisoned(p, ty)
  \/ \E ty \in Types : OpenFail(p, ty)
  \/ LockFail(p)
  \/ ReadCounter(p)
  \/ ReadFail(p)
  \/ ReadInvalid(p)
  \/ ClockPanic(p)
  \/ OverflowPanic(p)
  \/ WriteFail(p)
  \/ Return(p)
  \/ Exit(p)

Next == \E p \in Procs : Build(p)

\* Builds that share the lock file run concurrently (jobs = NProcs).
Spec == Init /\ [][Next]_vars

\* One build at a time (jobs = 1), on every short text.
SpecSeq == InitSeq /\ [][Next]_vars

\* One build at a time; a build expands its derives on up to NThreads
\* threads, which race on the first access to BASE_ID.
NextThreads ==
  \/ \E p \in Procs : Build(p)
  \/ \E p \in Procs, ty \in Types : DeriveWait(p, ty)
  \/ \E p \in Procs, ty \in Types : Wake(p, ty)

SpecThreads == InitRun /\ [][NextThreads]_vars

\* One build at a time, and the programs already built are run meanwhile.
NextRun ==
  \/ \E p \in Procs : Build(p)
  \/ \E p \in Procs, ty \in Types : VtidOf(p, ty)

SpecRun == InitRun /\ [][NextRun]_vars

\* One build at a time, run again and again; the calls succeed except
\* that a process may be killed while it holds the lock.
NextCrash ==
  \/ \E p \in Procs, ty \in Types : DeriveFirst(p, ty)
  \/ \E p \in Procs, ty \in Types : DeriveCached(p, ty)
  \/ \E p \in Procs : ReadCounter(p)
  \/ \E p \in Procs : Return(p)
  \/ \E p \in Procs : Crash(p)
  \/ \E p \in Procs : Exit(p)
  \/ Rebuild

SpecCrash == InitCrash /\ [][NextCrash]_vars

\* lock_exclusive returns to process p and the call goes on to its read
Acquire(p) ==
  \/ ReadCounter(p)
  \/ ReadFail(p)
  \/ ReadInvalid(p)
  \/ ClockPanic(p)
  \/ OverflowPanic(p)

\* The holder of the lock leaves its critical section or is killed
Leave(p) ==
  \/ Return(p)
  \/ WriteFail(p)
  \/ Crash(p)

\* The first derive of each of the concurrent build processes, that is
\* their calls of get_next_counter, where a lock holder may be killed
NextLive ==
  \/ \E p \in Procs, ty \in Types : DeriveFirst(p, ty)
  \/ \E p \in Procs, ty \in Types : OpenFail(p, ty)
  \/ \E p \in Procs : LockFail(p)
  \/ \E p \in Procs : Acquire(p)
  \/ \E p \in Procs : Leave(p)

\* The scheduler runs a caller whose lock_exclusive can return (each
\* process locks once, so a free lock stays free for the last waiters),
\* and a lock holder finishes its critical section or ends.
Fairness ==
  \A p \in Procs : WF_vars(Acquire(p)) /\ WF_vars(Leave(p))

SpecLive == InitLive /\ [][NextLive]_vars /\ Fairness

\* ------------------------------------------------------------ properties
Ok(i) == log[i].val # {}
Val(i) == CHOOSE v \in log[i].val : TRUE
LogIdx == 1..Len(log)

\* Values get_next_counter has returned so far
Returned == {Val(i) : i \in {j \in LogIdx : Ok(j)}}

\* The file started as the canonical decimal text of a u64
Canonical0 == existed0 /\ \E q \in 0..U64Max : content0 = ToString(q)
P0 == CHOOSE q \in 0..U64Max : content0 = ToString(q)

\* C1: the file starts as the decimal text of p and every call so far has
\* succeeded: the n values returned are exactly p+1 .. p+n, each returned
\* once, and once the calls have returned the file holds p+n.
C1_Distinct ==
  (Canonical0 /\ \A i \in LogIdx : Ok(i)) =>
     /\ \A i \in LogIdx : log[i].val = {P0 + i}
     /\ Returned = {P0 + i : i \in LogIdx}
     /\ content = ToString(P0 + Len(log))

\* What remains of C1 away from the u64 boundary: as long as p+n fits in
\* a u64 the calls return exactly p+1 .. p+n and the file holds p+n.
C1_NoWrap ==
  (Canonical0 /\ (\A i \in LogIdx : Ok(i)) /\ P0 + Len(log) <= U64Max) =>
     /\ \A i \in LogIdx : log[i].val = {P0 + i}
     /\ Returned = {P0 + i : i \in LogIdx}
     /\ content = ToString(P0 + Len(log))

\* C2: after a successful call the file is exactly the decimal text of the
\* value returned, whatever it held before.
C2_WholeFile ==
  \A i \in LogIdx : Ok(i) => log[i].wrote = ToString(Val(i))

\* C3: a call that reads the decimal text of a u64 p returns p+1 and
\* leaves the text of p+1.
C3_Increment ==
  \A i \in LogIdx : \A q \in 0..U64Max :
     (Ok(i) /\ log[i].read = ToString(q)) =>
        /\ log[i].val = {q + 1}
        /\ log[i].wrote = ToString(q + 1)

\* What remains of C3 below u64::MAX.
C3_NoWrap ==
  \A i \in LogIdx : \A q \in 0..(U64Max - 1) :
     (Ok(i) /\ log[i].read = ToString(q)) =>
        /\ log[i].val = {q + 1}
        /\ log[i].wrote = ToString(q + 1)

\* C4: a call that reads unparsable text returns the clock seed plus one
\* and leaves a valid decimal value, and the next call returns one more.
C4_Recovery ==
  \A i \in LogIdx :
     (Ok(i) /\ IsUtf8(log[i].read) /\ Parsed(log[i].read) = {}) =>
        /\ log[i].seeded
        /\ Val(i) \in {ts + 1 : ts \in Clock}
        /\ Parsed(log[i].wrote) = {Val(i)}
        /\ (i < Len(log) /\ Ok(i + 1)) => Val(i + 1) = Val(i) + 1

\* What remains of C4 when the unparsable text is no longer than the
\* text of the new value.
C4_ShortGarbage ==
  \A i \in LogIdx :
     (Ok(i) /\ IsUtf8(log[i].read) /\ Parsed(log[i].read) = {}
        /\ Len(log[i].read) <= Len(ToString(Val(i)))) =>
        /\ log[i].seeded
        /\ Val(i) \in {ts + 1 : ts \in Clock}
        /\ log[i].wrote = ToString(Val(i))
        /\ (i < Len(log) /\ Ok(i + 1)) => Val(i + 1) = Val(i) + 1

\* C5: the file was missing: a successful call has created the directory
\* and the file, took the clock seed (no history) and returned it plus
\* one, and left the decimal text of that value.
C5_Missing ==
  \A i \in LogIdx :
     (~existed0 /\ Ok(i) /\ \A j \in 1..(i - 1) : log[j].wrote = <<>>) =>
        /\ dirExists /\ fileExists
        /\ log[i].read = <<>>
        /\ log[i].seeded
        /\ Val(i) \in {ts + 1 : ts \in Clock}
        /\ log[i].wrote = ToString(Val(i))

C5_Witness ==
  /\ ~existed0 /\ ~dir0
  /\ Len(log) = 1 /\ Ok(1)
  /\ content = ToString(ClockBase + 1)

\* Calls of process p that held the lock
CallsOf(p) == {i \in LogIdx : log[i].proc = p}

\* C6: a process enters get_next_counter at most once, so advances the
\* file at most once, and every impl it emits carries the one BASE_ID.
C6_Once ==
  \A p \in Procs :
     /\ calls[p] <= 1
     /\ Cardinality(CallsOf(p)) <= 1
     /\ \A ty \in Types : impls[p][ty] \subseteq BASE_ID[p]
     /\ BASE_ID[p] # {} =>
          /\ calls[p] = 1
          /\ \E i \in CallsOf(p) : log[i].val = BASE_ID[p]

C6_Witness ==
  \E p \in Procs : \E t1, t2 \in Types :
     /\ BASE_ID[p] # {}
     /\ derive[p][t1] = "emitted"
     /\ derive[p][t2] = "blocked"

\* C7: the impls of one build carry one base value, and of two builds
\* that got a value the one that locked the file later got the greater.
C7_Builds ==
  /\ \A p \in Procs : \A t1, t2 \in Types :
        (impls[p][t1] # {} /\ impls[p][t2] # {}) => impls[p][t1] = impls[p][t2]
  /\ \A i, j \in LogIdx : (i < j /\ Ok(i) /\ Ok(j)) => Val(i) < Val(j)

\* The base value get_next_counter returned to build p
Issued(p) == UNION {log[i].val : i \in CallsOf(p)}

\* C8: retrieving an identifier leaves the lock file alone and yields the
\* base value the build was given, so two retrievals for the same type of
\* the same build are equal whatever other builds did in between.
C8_SeenStable ==
  /\ \A i \in 1..Len(seen) : seen[i].v.base_id \in Issued(seen[i].build)
  /\ \A i, j \in 1..Len(seen) :
        (seen[i].build = seen[j].build /\ seen[i].ty = seen[j].ty)
           => VtidEq(seen[i].v, seen[j].v)

C8_Runtime ==
  /\ []C8_SeenStable
  /\ [][seen' # seen => (fsVars' = fsVars /\ procVars' = procVars)]_vars

C8_Witness ==
  /\ Len(seen) = 2
  /\ seen[1].build = seen[2].build /\ seen[1].ty = seen[2].ty
  /\ \E i \in LogIdx : Ok(i) /\ log[i].proc # seen[1].build
                         /\ Val(i) # seen[1].v.base_id
  /\ Parsed(content) # {seen[1].v.base_id}

\* C9: two identifiers are equal exactly when they are of the same type
\* and carry the same base value.
C9_Equality ==
  \A i, j \in 1..Len(seen) :
     VtidEq(seen[i].v, seen[j].v) <=>
        /\ seen[i].ty = seen[j].ty
        /\ Issued(seen[i].build) = Issued(seen[j].build)

C9_Witness ==
  /\ Len(seen) = 2
  /\ seen[1].ty # seen[2].ty
  /\ seen[1].v.base_id = seen[2].v.base_id
  /\ ~VtidEq(seen[1].v, seen[2].v)

\* C10: a process whose call failed has no base value, has emitted no
\* impl and emits none later: its Once stays poisoned and it is not built.
C10_Fatal ==
  \A p \in failed :
     /\ BASE_ID[p] = {}
     /\ \A ty \in Types : impls[p][ty] = {} /\ derive[p][ty] # "emitted"
     /\ once[p] = "poisoned"
     /\ Errors(p) # {}
     /\ ~Built(p)

C10_Witness ==
  \E p \in failed : Errors(p) = Types /\ exited[p]

\* The numeric value the file holds after the i-th call that held the lock
\* (i = 0: at the start), {} when the text does not parse
Num(i) ==
  IF i = 0 THEN (IF existed0 THEN Parsed(content0) ELSE {})
  ELSE Parsed(log[i].wrote)

\* C11: over the calls that succeeded, the numeric value held by the file
\* never decreases: a value the file holds after a later call is at least
\* any value it held earlier.
C11_Monotone ==
  (\A k \in LogIdx : Ok(k)) =>
     \A i, j \in 0..Len(log) :
        i < j => \A a \in Num(i) : \A b \in Num(j) : a <= b

\* What remains of C11 away from the u64 boundary: as long as no call has
\* wrapped to 0 the stored value does not decrease.
C11_NoWrap ==
  (\A k \in LogIdx : Ok(k) /\ Val(k) # 0) =>
     \A i, j \in 0..Len(log) :
        i < j => \A a \in Num(i) : \A b \in Num(j) : a <= b

\* C12: whatever a killed lock holder left in the file, no successful
\* call returns a value that an earlier successful call returned.
C12_NoRepeat ==
  \A i, j \in LogIdx : (i < j /\ Ok(i) /\ Ok(j)) => Val(i) # Val(j)

\* The other half of C12: a killed process holds no lock, so the callers
\* that wait for the lock are not blocked by it.
C12_Released == \A p \in Procs : exited[p] => p \notin lockHolders

\* The text is the decimal text of q with whitespace around it
Padded(text, q) == text # ToString(q) /\ Trim(text) = ToString(q)

\* C13: a call that reads the decimal text of p with whitespace before
\* and/or after it does not take the clock seed and returns p+1.
C13_Trimmed ==
  \A i \in LogIdx : \A q \in 0..U64Max :
     (Ok(i) /\ Padded(log[i].read, q)) =>
        /\ ~log[i].seeded
        /\ log[i].val = {q + 1}

\* What remains of C13 below u64::MAX.
C13_NoWrap ==
  \A i \in LogIdx : \A q \in 0..(U64Max - 1) :
     (Ok(i) /\ Padded(log[i].read, q)) =>
        /\ ~log[i].seeded
        /\ log[i].val = {q + 1}

\* Identifiers the programs built so far can retrieve
Retrievable == {pt \in Procs \X Types : Built(pt[1]) /\ impls[pt[1]][pt[2]] # {}}
Ids == {vtid(pt[1], pt[2]) : pt \in Retrievable}

\* C14: the order on Vtid is total and agrees with equality: of a < b,
\* a == b, a > b exactly one holds, a > b is b < a, the order is
\* transitive, and a compares equal to b only when both fields are equal.
C14_TotalOrder ==
  \A a, b, c \in Ids :
     /\ VtidCmp(a, b) \in {"Less", "Equal", "Greater"}
     /\ (VtidCmp(a, b) = "Equal") <=> VtidEq(a, b)
     /\ (VtidCmp(a, b) = "Equal") <=> (a.tid = b.tid /\ a.base_id = b.base_id)
     /\ (VtidCmp(a, b) = "Less") <=> (VtidCmp(b, a) = "Greater")
     /\ (VtidCmp(a, b) = "Less" /\ VtidCmp(b, c) = "Less")
           => VtidCmp(a, c) = "Less"

\* Two identifiers whose fields order them in opposite ways, and two of
\* different types that carry the same base value.
C14_Witness ==
  /\ \E a, b \in Ids :
        a.tid < b.tid /\ a.base_id > b.base_id /\ VtidCmp(a, b) = "Less"
  /\ \E a, b \in Ids : a.tid # b.tid /\ a.base_id = b.base_id

\* Processes between the read and the write of read_and_update_counter
InCS == {p \in Procs : pc[p] = "computed"}

C15_Exclusive ==
  /\ Cardinality(InCS) <= 1
  /\ InCS = lockHolders

\* C15: at most one caller is between its read and its write, it is the
\* holder of the lock, and every step that changes the bytes of the file
\* or reads them is taken by the holder of the lock.
C15_Mutex ==
  /\ []C15_Exclusive
  /\ [][/\ content' # content => \E p \in lockHolders : pc[p] = "computed"
        /\ \A p \in Procs :
              (readText'[p] # readText[p] /\ readText'[p] # <<>>)
                 => lockHolders' = {p}]_vars

\* One process is inside the critical section while another has opened
\* the file and waits for the lock.
C15_Witness ==
  \E p, q \in Procs :
     /\ p # q
     /\ lockHolders = {p} /\ pc[p] = "computed"
     /\ once[q] = "running" /\ pc[q] = "opened"

C16_NotHeld ==
  \A p \in Procs :
     /\ p \in lockHolders => InCall(p, "computed")
     /\ (p \in failed \/ BASE_ID[p] # {} \/ exited[p]) => p \notin lockHolders

\* C16: the lock is held only between the read and the write of a call in
\* progress; the step by which a caller leaves that section, by returning
\* or by a failed seek, write or sync, releases the lock, and a call that
\* failed or returned holds no lock.
C16_Released ==
  /\ []C16_NotHeld
  /\ [][\A p \in Procs :
          (pc[p] = "computed" /\ pc'[p] # "computed")
             => (p \in lockHolders /\ p \notin lockHolders')]_vars

\* A call failed after it had taken the lock, its process is still
\* running, and another process has taken the lock and returned since.
C16_Witness ==
  \E i, j \in LogIdx :
     /\ i < j
     /\ ~Ok(i) /\ log[i].proc \in failed /\ ~exited[log[i].proc]
     /\ log[i].wrote # log[i].read
     /\ Ok(j) /\ log[j].proc # log[i].proc

\* Process p has opened the file and is blocked in lock_exclusive
Waiting(p) == once[p] = "running" /\ pc[p] = "opened"

\* The call of process p is over: it returned a value, failed, or the
\* process was killed
Settled(p) == BASE_ID[p] # {} \/ p \in failed \/ exited[p]

\* C17: with fair scheduling and lock holders that finish or end, a caller
\* blocked on the lock eventually gets it and its call comes to its end,
\* returning a value unless its own read or write fails; and as long as
\* another process holds the lock a blocked caller stays blocked (it can
\* only leave through an error of lock_exclusive): there is no timeout.
C17_Live ==
  /\ \A p \in Procs : Waiting(p) ~> Settled(p)
  /\ \A p \in Procs : (pc[p] = "computed") ~> Settled(p)
  /\ [][\A p \in Procs :
          (Waiting(p) /\ lockHolders \ {p} # {})
             => (Waiting(p)' \/ (p \in failed' /\ CallsOf(p)' = {}))]_vars

\* A lock holder was killed and a caller of another process has since
\* taken the lock and returned a value.
C17_Witness ==
  \E i, j \in LogIdx :
     /\ i < j
     /\ ~Ok(i) /\ exited[log[i].proc] /\ once[log[i].proc] = "running"
     /\ Ok(j) /\ BASE_ID[log[j].proc] = log[j].val

\* C18: a successful call that read the number q returns a value greater
\* than q, and the number it leaves in the file is greater than q.
C18_Greater ==
  \A i \in LogIdx : \A q \in Parsed(log[i].read) :
     Ok(i) =>
        /\ Val(i) > q
        /\ \A b \in Parsed(log[i].wrote) : b > q

\* What remains of C18 below u64::MAX.
C18_BelowMax ==
  \A i \in LogIdx : \A q \in Parsed(log[i].read) :
     (Ok(i) /\ q < U64Max) =>
        /\ Val(i) = q + 1
        /\ \A b \in Parsed(log[i].wrote) : b > q

\* Process p has not reached line 112 for any type
NoDerive(p) == \A ty \in Types : derive[p][ty] = "none"

C19_Untouched ==
  \A p \in Procs :
     /\ NoDerive(p) =>
          /\ once[p] = "incomplete" /\ pc[p] = "start"
          /\ calls[p] = 0 /\ CallsOf(p) = {}
          /\ p \notin lockHolders
     /\ calls[p] <= 1
     /\ \A ty \in Types : impls[p][ty] \subseteq Issued(p)

\* C19: a process that has expanded no derive has not entered
\* get_next_counter, holds no lock and has no call in the log; a process
\* enters get_next_counter in the step of its first expansion, the file and
\* the lock change only for a process whose initializer is running, and an
\* expansion after the first one changes neither file, lock nor log and
\* carries the value of the first.
C19_Lazy ==
  /\ []C19_Untouched
  /\ [][/\ \A p \in Procs :
             calls'[p] # calls[p] =>
                (NoDerive(p) /\ \E ty \in Types : derive'[p][ty] # "none")
        /\ (fsVars' # fsVars \/ log' # log) =>
             \E p \in Procs :
                /\ \E ty \in Types : derive'[p][ty] # "none"
                /\ once[p] = "running" \/ once'[p] # once[p]
        /\ \A p \in Procs : \A ty \in Types :
             (derive[p][ty] = "none" /\ derive'[p][ty] # "none"
                /\ ~NoDerive(p))
                => (fsVars' = fsVars /\ calls' = calls /\ log' = log)]_vars

\* One process ended without expanding a derive while another advanced
\* the counter once and expanded all its derives with that value.
C19_Witness ==
  \E p, q \in Procs :
     /\ exited[p] /\ NoDerive(p)
     /\ BASE_ID[q] # {} /\ calls[q] = 1
     /\ \A ty \in Types : impls[q][ty] = BASE_ID[q]
     /\ Len(log) = 1 /\ Ok(1)
     /\ content # content0

====
